---- MODULE Spec2Model ----
(***************************************************************************)
(* SQLiteTransactionRepository over the `transactions` table.              *)
(*                                                                         *)
(* The table is the state; every repository method is one action that      *)
(* records the call, its outcome (resolved value or rejection message) and *)
(* the table it started from in `last`; `gone` is the history of the ids   *)
(* whose rows were deleted.                                                *)
(*                                                                         *)
(* Dates: a JS Date is [k |-> "date", y |-> year] (midnight UTC, 1 January *)
(* of that year), an Invalid Date object is k = "nan", a non-Date value    *)
(* passed where a Date is expected is k = "str".  The TEXT column holds    *)
(* what Date.prototype.toISOString returns, modelled as the sequence of    *)
(* character codes of its year part (the rest, "-01-01T00:00:00.000Z", is  *)
(* the same for every modelled date); SQLite compares TEXT bytewise.       *)
(* Amounts are integers (cents).  Optional fields of a Partial<Transaction>*)
(* are <<>> (absent / undefined) or <<v>> (present).                       *)
(***************************************************************************)
EXTENDS Integers, Sequences, FiniteSets, TLC

VARIABLES rows, seq, last, gone

vars == <<rows, seq, last, gone>>

\* ---------------------------------------------------------------- bounds
MaxId == 2
MaxBatch == 2
MaxPatchFields == 2

\* ------------------------------------------------------- program constants
EXPENSE_CATEGORIES ==
  {"Accommodation", "Transportation", "Food & Beverage", "Tours & Activities",
   "Marketing", "Staff Wages", "Insurance", "Equipment & Supplies",
   "Maintenance", "Commissions", "Utilities", "Other"}

INCOME_CATEGORIES ==
  {"Package Tours", "Hotel Bookings", "Flight Bookings", "Activity Sales",
   "Transport Services", "Commission Income", "Travel Insurance", "Other"}

\* CHECK (type IN ('income', 'expense'))
Types == {"income", "expense"}

CreatePrefix == "Failed to create transaction: "
UpdatePrefix == "Failed to update transaction: "

\* ------------------------------------------------------------ input values
DateOf(y) == [k |-> "date", y |-> y]
InvalidDate == [k |-> "nan", y |-> 0]
NotADate == [k |-> "str", y |-> 0]
Ids == 1 .. (MaxId + 1)
Fields == {"id", "date", "amount", "type", "category", "description"}

Opt(S) == {<<>>} \cup {<<v>> : v \in S}
Has(p, k) == p[k] # <<>>
Val(p, k) == p[k][1]
Supplied(p) == {k \in Fields : Has(p, k)}

\* the Partial<Transaction> values with at most MaxPatchFields keys
PatchesOver(D, A, T, C, S) ==
  {p \in [id : Opt({MaxId + 1}), date : Opt(D), amount : Opt(A),
          type : Opt(T), category : Opt(C), description : Opt(S)] :
     Cardinality(Supplied(p)) <= MaxPatchFields}

\* the arrays of at most MaxBatch items
BatchesOver(items) == UNION {[1 .. n -> items] : n \in 0 .. MaxBatch}

QueryDates == {DateOf(2023), DateOf(2024), DateOf(10000)}

\* inputs of Spec: every field takes two storable values
FieldDates == {DateOf(2024), DateOf(10000), InvalidDate}
FieldAmounts == {-5, 40, 100}
FieldCategories == {"Accommodation", "Other"}
FieldDescriptions == {"a", "b"}
FieldTx ==
  [date : FieldDates, amount : FieldAmounts, type : {"income", "expense"},
   category : FieldCategories, description : FieldDescriptions]
FieldPatches ==
  PatchesOver(FieldDates, FieldAmounts, {"income", "expense"},
              FieldCategories, FieldDescriptions)
FieldBatches ==
  BatchesOver([date : {DateOf(2024)}, amount : {-5, 40}, type : {"income"},
               category : {"Other"}, description : {"a"}])

\* inputs of SpecCrud: date, amount and description vary; few enough rows to
\* explore tables of three
CrudDates == {DateOf(2024), DateOf(10000)}
CrudAmounts == {-5, 40, 100}
CrudDescriptions == {"a", "b"}
CrudTx ==
  [date : CrudDates, amount : CrudAmounts, type : {"expense"},
   category : {"Other"}, description : CrudDescriptions]
CrudPatches ==
  PatchesOver(CrudDates, CrudAmounts, {"expense"}, {"Other"}, CrudDescriptions)
CrudBatches ==
  BatchesOver([date : {DateOf(2024)}, amount : {-5, 40}, type : {"expense"},
               category : {"Other"}, description : {"a"}])

\* inputs of SpecCategories: every type with every category, legal or not
CatTypes == {"income", "expense", "refund"}
CatCategories == {"Accommodation", "Package Tours", "Other", ""}
CatAmounts == {-5, 40, 100}
CatTx ==
  [date : {DateOf(2024)}, amount : CatAmounts, type : CatTypes,
   category : CatCategories, description : {"a"}]
CatPatches == PatchesOver({}, CatAmounts, CatTypes, CatCategories, {})
CatQueryDates == {DateOf(2023), DateOf(2024)}
CatBatches ==
  BatchesOver([date : {DateOf(2024), InvalidDate, NotADate}, amount : {-5, 40},
               type : {"income", "expense"},
               category : {"Accommodation", "Other"}, description : {"a"}])

\* ------------------------------------------------- Date <-> ISO-8601 text
Digit(n) == 48 + n

\* toISOString: four digits for years 0..9999, else sign and six digits
toISOString(d) ==
  LET y == d.y
      a == IF y < 0 THEN -y ELSE y
  IN IF 0 <= y /\ y <= 9999
       THEN <<Digit(y \div 1000), Digit((y \div 100) % 10),
              Digit((y \div 10) % 10), Digit(y % 10)>>
       ELSE <<IF y < 0 THEN 45 ELSE 43,
              Digit(a \div 100000), Digit((a \div 10000) % 10),
              Digit((a \div 1000) % 10), Digit((a \div 100) % 10),
              Digit((a \div 10) % 10), Digit(a % 10)>>

RECURSIVE DigitsValue(_)
DigitsValue(s) ==
  IF s = <<>> THEN 0
  ELSE 10 * DigitsValue(SubSeq(s, 1, Len(s) - 1)) + (s[Len(s)] - 48)

\* new Date(text)
parseDate(s) ==
  IF s[1] = 43 THEN DateOf(DigitsValue(Tail(s)))
  ELSE IF s[1] = 45 THEN DateOf(-DigitsValue(Tail(s)))
  ELSE DateOf(DigitsValue(s))

\* bytewise (BINARY collation) comparison of two TEXT values: s <= t
RECURSIVE TextLeq(_, _)
TextLeq(s, t) ==
  IF s = <<>> THEN TRUE
  ELSE IF t = <<>> THEN FALSE
  ELSE IF s[1] # t[1] THEN s[1] < t[1]
  ELSE TextLeq(Tail(s), Tail(t))

\* x BETWEEN lo AND hi
Between(x, lo, hi) == TextLeq(lo, x) /\ TextLeq(x, hi)

\* ------------------------------------------------------------- validation
NoError == <<>>

validateTransaction(p) ==
  IF Has(p, "amount") /\ Val(p, "amount") # 0 /\ Val(p, "amount") < 0
    THEN <<"Amount must be positive">>
  ELSE IF Has(p, "date") /\ Val(p, "date").k = "str"
    THEN <<"Invalid date format">>
  ELSE NoError

validateConsistency(p) ==
  IF /\ Has(p, "type") /\ Val(p, "type") = "income"
     /\ Has(p, "category") /\ Val(p, "category") # ""
     /\ Val(p, "category") \notin INCOME_CATEGORIES
    THEN <<"Invalid category for income transaction">>
  ELSE IF /\ Has(p, "type") /\ Val(p, "type") = "expense"
          /\ Has(p, "category") /\ Val(p, "category") # ""
          /\ Val(p, "category") \notin EXPENSE_CATEGORIES
    THEN <<"Invalid category for expense transaction">>
  ELSE NoError

\* ------------------------------------------------------------ row mapping
mapTransaction(id, row) ==
  IF row.type \notin {"income", "expense"}
    THEN [ok |-> FALSE, err |-> <<"Invalid transaction type: ", row.type>>]
  ELSE IF row.category \notin EXPENSE_CATEGORIES
          /\ row.category \notin INCOME_CATEGORIES
    THEN [ok |-> FALSE,
          err |-> <<"Invalid transaction category: ", row.category>>]
  ELSE [ok |-> TRUE,
        tx |-> [id |-> id, date |-> parseDate(row.date), amount |-> row.amount,
                type |-> row.type, category |-> row.category,
                description |-> row.description]]

\* rows.map(this.mapTransaction) over the ids in result order
RECURSIVE mapRows(_, _)
mapRows(tbl, order) ==
  IF order = <<>> THEN [ok |-> TRUE, out |-> <<>>]
  ELSE LET m == mapTransaction(order[1], tbl[order[1]])
       IN IF ~m.ok THEN [ok |-> FALSE, err |-> m.err]
          ELSE LET r == mapRows(tbl, Tail(order))
               IN IF ~r.ok THEN r
                  ELSE [ok |-> TRUE, out |-> <<m.tx>> \o r.out]

\* the orders "ORDER BY date DESC" may return the rows `ids` in
DateDescOrders(tbl, ids) ==
  {o \in [1 .. Cardinality(ids) -> ids] :
     /\ \A i, j \in DOMAIN o : i # j => o[i] # o[j]
     /\ \A i, j \in DOMAIN o : i < j => TextLeq(tbl[o[j]].date, tbl[o[i]].date)}

\* ------------------------------------------------------------------ state
Result(op, args, ok, err, out) ==
  [op |-> op, args |-> args, pre |-> rows, ok |-> ok, err |-> err, out |-> out]

\* no call is outstanding
Idle == [op |-> "idle"]

Init ==
  /\ rows = <<>>
  /\ seq = 0
  /\ last = Idle
  /\ gone = {}

Read(op, args, r) ==
  /\ last' = IF r.ok THEN Result(op, args, TRUE, NoError, r.out)
             ELSE Result(op, args, FALSE, r.err, <<>>)
  /\ UNCHANGED <<rows, seq, gone>>

getAll ==
  /\ last = Idle
  /\ \E o \in DateDescOrders(rows, DOMAIN rows) :
    Read("getAll", <<>>, mapRows(rows, o))

getByIdResult(tbl, id) ==
  IF id \in DOMAIN tbl
    THEN LET m == mapTransaction(id, tbl[id])
         IN IF m.ok THEN [ok |-> TRUE, out |-> <<m.tx>>]
            ELSE [ok |-> FALSE, err |-> m.err]
  ELSE [ok |-> TRUE, out |-> <<>>]

getById(id) ==
  /\ last = Idle
  /\ Read("getById", [id |-> id], getByIdResult(rows, id))

\* the row as bound to the INSERT statement
storedRow(t) ==
  [date |-> toISOString(t.date), amount |-> t.amount, type |-> t.type,
   category |-> t.category, description |-> t.description]

AsPartial(t) ==
  [id |-> <<>>, date |-> <<t.date>>, amount |-> <<t.amount>>,
   type |-> <<t.type>>, category |-> <<t.category>>,
   description |-> <<t.description>>]

RECURSIVE SetMax(_)
SetMax(S) ==
  IF S = {} THEN 0
  ELSE LET x == CHOOSE x \in S : TRUE
           m == SetMax(S \ {x})
       IN IF x > m THEN x ELSE m

\* plain rowid allocation: one more than the largest rowid now in the table
NextRowidReuse(tbl, sq) == SetMax(DOMAIN tbl) + 1

\* INTEGER PRIMARY KEY AUTOINCREMENT: one more than the largest rowid the
\* table has ever held (sqlite_sequence), never a rowid used before
NextRowid(tbl, sq) == SetMax(DOMAIN tbl \cup {sq}) + 1

CheckFailed == <<"CHECK constraint failed: type IN ('income', 'expense')">>
InvalidTime == <<"Invalid time value">>

\* what create's try block throws before the re-read, NoError if nothing
createThrows(t) ==
  IF validateTransaction(AsPartial(t)) # NoError
    THEN validateTransaction(AsPartial(t))
  ELSE IF validateConsistency(AsPartial(t)) # NoError
    THEN validateConsistency(AsPartial(t))
  ELSE IF t.date.k # "date" THEN InvalidTime
  ELSE IF t.type \notin Types THEN CheckFailed
  ELSE NoError

create(t) ==
  /\ last = Idle
  /\ NextRowid(rows, seq) <= MaxId
  /\ LET e == createThrows(t)
         id == NextRowid(rows, seq)
         tbl == rows @@ (id :> storedRow(t))
         r == getByIdResult(tbl, id)
     IN IF e # NoError
          THEN /\ last' = Result("create", [tx |-> t], FALSE,
                                 <<CreatePrefix>> \o e, <<>>)
               /\ UNCHANGED <<rows, seq, gone>>
          ELSE /\ rows' = tbl
               /\ seq' = id
               /\ UNCHANGED gone
               \* the promise of getById(...).then(...) is returned without
               \* await: its rejection does not pass through the catch block
               /\ last' = IF ~r.ok
                            THEN Result("create", [tx |-> t], FALSE, r.err, <<>>)
                          ELSE IF r.out = <<>>
                            THEN Result("create", [tx |-> t], FALSE,
                                        <<"Failed to create transaction">>, <<>>)
                          ELSE Result("create", [tx |-> t], TRUE, NoError, r.out)

\* the SET list: every supplied column but id
assignments(p) == Supplied(p) \ {"id"}

\* the row after "UPDATE ... SET <assignments>"
applyPatch(row, p) ==
  [date |-> IF Has(p, "date") THEN toISOString(Val(p, "date")) ELSE row.date,
   amount |-> IF Has(p, "amount") THEN Val(p, "amount") ELSE row.amount,
   type |-> IF Has(p, "type") THEN Val(p, "type") ELSE row.type,
   category |-> IF Has(p, "category") THEN Val(p, "category") ELSE row.category,
   description |-> IF Has(p, "description") THEN Val(p, "description")
                   ELSE row.description]

\* an UPDATE whose WHERE clause is lost: every row takes the assignments
updateRowsNoWhere(tbl, id, p) == [i \in DOMAIN tbl |-> applyPatch(tbl[i], p)]

\* the table after "UPDATE transactions SET ... WHERE id = ?"
updateRows(tbl, id, p) ==
  [i \in DOMAIN tbl |-> IF i = id THEN applyPatch(tbl[i], p) ELSE tbl[i]]

SyntaxError == <<"near \"WHERE\": syntax error">>

\* what update's try block throws before the re-read, NoError if nothing
updateThrows(tbl, id, p) ==
  IF validateTransaction(p) # NoError THEN validateTransaction(p)
  ELSE IF validateConsistency(p) # NoError THEN validateConsistency(p)
  ELSE IF Has(p, "date") /\ Val(p, "date").k # "date" THEN InvalidTime
  ELSE IF assignments(p) = {} THEN SyntaxError
  ELSE IF id \in DOMAIN tbl /\ updateRows(tbl, id, p)[id].type \notin Types
    THEN CheckFailed
  ELSE NoError

NotFound(id) == <<"Transaction with id ", ToString(id), " not found">>

update(id, p) ==
  /\ last = Idle
  /\ LET e == updateThrows(rows, id, p)
         tbl == updateRows(rows, id, p)
         r == getByIdResult(tbl, id)
         args == [id |-> id, patch |-> p]
     IN IF e # NoError
       THEN /\ last' = Result("update", args, FALSE, <<UpdatePrefix>> \o e, <<>>)
            /\ UNCHANGED <<rows, seq, gone>>
       ELSE /\ rows' = tbl
            /\ UNCHANGED <<seq, gone>>
            \* as in create, the re-read's rejection is not re-wrapped
            /\ last' = IF ~r.ok
                         THEN Result("update", args, FALSE, r.err, <<>>)
                       ELSE IF r.out = <<>>
                         THEN Result("update", args, FALSE, NotFound(id), <<>>)
                       ELSE Result("update", args, TRUE, NoError, r.out)

\* a DELETE whose condition is id <= ? instead of id = ?
deleteRowsUpTo(tbl, id) == [i \in {j \in DOMAIN tbl : j > id} |-> tbl[i]]

\* the table after "DELETE FROM transactions WHERE id = ?"
deleteRows(tbl, id) == [i \in DOMAIN tbl \ {id} |-> tbl[i]]

delete(id) ==
  /\ last = Idle
  /\ rows' = deleteRows(rows, id)
  /\ last' = Result("delete", [id |-> id], TRUE, NoError, <<>>)
  /\ gone' = gone \cup (DOMAIN rows \cap {id})
  /\ UNCHANGED seq

\* "WHERE date BETWEEN ? AND ?" with both bounds bound as ISO text
inRange(tbl, a, b) ==
  {i \in DOMAIN tbl : Between(tbl[i].date, toISOString(a), toISOString(b))}

getByDateRange(a, b) ==
  /\ last = Idle
  /\ \E o \in DateDescOrders(rows, inRange(rows, a, b)) :
    Read("getByDateRange", [startDate |-> a, endDate |-> b], mapRows(rows, o))

getByType(type) ==
  /\ last = Idle
  /\ \E o \in DateDescOrders(rows, {i \in DOMAIN rows : rows[i].type = type}) :
    Read("getByType", [type |-> type], mapRows(rows, o))

getByCategory(category) ==
  /\ last = Idle
  /\ \E o \in DateDescOrders(rows,
                          {i \in DOMAIN rows : rows[i].category = category}) :
    Read("getByCategory", [category |-> category], mapRows(rows, o))

RECURSIVE SumAmounts(_, _)
SumAmounts(tbl, S) ==
  IF S = {} THEN 0
  ELSE LET i == CHOOSE i \in S : TRUE
       IN tbl[i].amount + SumAmounts(tbl, S \ {i})

\* the rows of "GROUP BY type, category": one <<type, category>> per group
groups(tbl, ids) == {<<tbl[i].type, tbl[i].category>> : i \in ids}

\* SUM(amount) of one group
groupTotal(tbl, ids, g) ==
  SumAmounts(tbl, {i \in ids : <<tbl[i].type, tbl[i].category>> = g})

RECURSIVE SumTotals(_, _, _)
SumTotals(tbl, ids, G) ==
  IF G = {} THEN 0
  ELSE LET g == CHOOSE g \in G : TRUE
       IN groupTotal(tbl, ids, g) + SumTotals(tbl, ids, G \ {g})

\* the fold of rows.forEach; lastOf[c] is the type of the group of category c
\* that the loop meets last (the query has no ORDER BY): its total is the one
\* left in categoryBreakdown[c]
summaryOf(tbl, ids, lastOf) ==
  LET G == groups(tbl, ids)
      totalIncome == SumTotals(tbl, ids, {g \in G : g[1] = "income"})
      totalExpenses == SumTotals(tbl, ids, {g \in G : g[1] # "income"})
  IN [totalIncome |-> totalIncome,
      totalExpenses |-> totalExpenses,
      netProfit |-> totalIncome - totalExpenses,
      categoryBreakdown |->
        [c \in DOMAIN lastOf |-> groupTotal(tbl, ids, <<lastOf[c], c>>)]]

getFinancialSummary(a, b) ==
  /\ last = Idle
  /\ LET ids == inRange(rows, a, b)
         G == groups(rows, ids)
     IN \E lastOf \in [{g[2] : g \in G} -> {g[1] : g \in G}] :
       /\ \A c \in DOMAIN lastOf : <<lastOf[c], c>> \in G
       /\ Read("getFinancialSummary", [startDate |-> a, endDate |-> b],
               [ok |-> TRUE, out |-> summaryOf(rows, ids, lastOf)])

\* what one pass of insertMany's loop throws for item t, NoError if nothing
insertThrows(t) ==
  IF validateTransaction(AsPartial(t)) # NoError
    THEN validateTransaction(AsPartial(t))
  ELSE IF t.date.k # "date" THEN InvalidTime
  ELSE IF t.type \notin Types THEN CheckFailed
  ELSE NoError

\* the table and sqlite_sequence after inserting the items in order
RECURSIVE insertAll(_, _, _)
insertAll(tbl, sq, txs) ==
  IF txs = <<>> THEN [rows |-> tbl, seq |-> sq, ids |-> <<>>]
  ELSE LET id == NextRowid(tbl, sq)
           r == insertAll(tbl @@ (id :> storedRow(txs[1])), id, Tail(txs))
       IN [rows |-> r.rows, seq |-> r.seq, ids |-> <<id>> \o r.ids]

createMany(txs) ==
  /\ last = Idle
  /\ seq + Len(txs) <= MaxId
  /\ LET bad == {i \in DOMAIN txs : insertThrows(txs[i]) # NoError}
         first == CHOOSE i \in bad : \A j \in bad : i <= j
         ins == insertAll(rows, seq, txs)
         r == mapRows(ins.rows, ins.ids)
         args == [txs |-> txs]
     IN IF bad # {}
          \* the throw leaves db.transaction: everything is rolled back
          THEN /\ last' = Result("createMany", args, FALSE,
                                 insertThrows(txs[first]), <<>>)
               /\ UNCHANGED <<rows, seq, gone>>
          ELSE /\ rows' = ins.rows
               /\ seq' = ins.seq
               /\ UNCHANGED gone
               /\ last' = IF r.ok
                            THEN Result("createMany", args, TRUE, NoError, r.out)
                          ELSE Result("createMany", args, FALSE, r.err, <<>>)

\* the caller has awaited the returned promise and makes its next call
settle ==
  /\ last # Idle
  /\ last' = Idle
  /\ UNCHANGED <<rows, seq, gone>>

Next ==
  \/ settle
  \/ getAll
  \/ \E id \in Ids : getById(id)
  \/ \E t \in FieldTx : create(t)
  \/ \E id \in Ids, p \in FieldPatches : update(id, p)
  \/ \E id \in Ids : delete(id)
  \/ \E a, b \in QueryDates : getByDateRange(a, b)
  \/ \E type \in Types : getByType(type)
  \/ \E c \in FieldCategories : getByCategory(c)
  \/ \E a, b \in QueryDates : getFinancialSummary(a, b)
  \/ \E txs \in FieldBatches : createMany(txs)

Spec == Init /\ [][Next]_vars

NextCategories ==
  \/ settle
  \/ getAll
  \/ \E id \in Ids : getById(id)
  \/ \E t \in CatTx : create(t)
  \/ \E id \in Ids, p \in CatPatches : update(id, p)
  \/ \E id \in Ids : delete(id)
  \/ \E a, b \in CatQueryDates : getByDateRange(a, b)
  \/ \E type \in Types : getByType(type)
  \/ \E c \in CatCategories : getByCategory(c)
  \/ \E a, b \in CatQueryDates : getFinancialSummary(a, b)
  \/ \E txs \in CatBatches : createMany(txs)

SpecCategories == Init /\ [][NextCategories]_vars
NextCrud ==
  \/ settle
  \/ getAll
  \/ \E id \in Ids : getById(id)
  \/ \E t \in CrudTx : create(t)
  \/ \E id \in Ids, p \in CrudPatches : update(id, p)
  \/ \E id \in Ids : delete(id)
  \/ \E a, b \in CrudDates : getByDateRange(a, b)
  \/ \E type \in Types : getByType(type)
  \/ getByCategory("Other")
  \/ \E a, b \in CrudDates : getFinancialSummary(a, b)
  \/ \E txs \in CrudBatches : createMany(txs)

SpecCrud == Init /\ [][NextCrud]_vars

\* ------------------------------------------------------------------ claims
\* category belongs to the category set of type
Legal(type, category) ==
  \/ type = "income" /\ category \in INCOME_CATEGORIES
  \/ type = "expense" /\ category \in EXPENSE_CATEGORIES

\* a Transaction-minus-id that the data model allows
ValidTx(t) ==
  t.amount >= 0 /\ t.date.k = "date" /\ Legal(t.type, t.category)

\* a Partial<Transaction> that the validation rules of the data model allow
ValidPatch(p) ==
  /\ Has(p, "amount") => Val(p, "amount") >= 0
  /\ Has(p, "date") => Val(p, "date").k = "date"
  /\ Has(p, "type") /\ Has(p, "category")
       => Legal(Val(p, "type"), Val(p, "category"))

Year(row) == parseDate(row.date).y
DataFields == Fields \ {"id"}
ReadOps == {"getAll", "getById", "getByDateRange", "getByType", "getByCategory"}

\* C1: every stored transaction has a category of the category set of its
\* type, whatever sequence of create, createMany, update and delete led here.
C1_CategoryMatchesType ==
  \A i \in DOMAIN rows : Legal(rows[i].type, rows[i].category)

\* C2: a createMany whose batch holds at least one item failing validation
\* (negative amount, invalid date, category outside the set of its type)
\* fails and leaves the table as it was.
C2_CreateManyAllOrNothing ==
  (last.op = "createMany" /\ \E i \in DOMAIN last.args.txs :
                               ~ValidTx(last.args.txs[i]))
    => (~last.ok /\ rows = last.pre)

\* C3: categoryBreakdown maps every category with a transaction in the range
\* to the sum of the amounts of all in-range transactions of that category,
\* income and expense alike.  Stated for the tables in which every row has a
\* category of its type (where `Other` is the one category of both sets).
C3_BreakdownSumsCategory ==
  (last.op = "getFinancialSummary" /\ C1_CategoryMatchesType)
    => LET ids == {i \in DOMAIN rows :
                     /\ last.args.startDate.y <= Year(rows[i])
                     /\ Year(rows[i]) <= last.args.endDate.y}
           cats == {rows[i].category : i \in ids}
       IN /\ last.ok
          /\ DOMAIN last.out.categoryBreakdown = cats
          /\ \A c \in cats :
               last.out.categoryBreakdown[c] =
                 SumAmounts(rows, {i \in ids : rows[i].category = c})

\* C4: a successful update(id, patch) leaves every column of row id that the
\* patch does not supply as it was, keeps the row under id (also when the
\* patch carries another id) and leaves every other row as it was.
C4_UpdateFrame ==
  (last.op = "update" /\ last.ok)
    => LET id == last.args.id
           p == last.args.patch
       IN /\ id \in DOMAIN last.pre
          /\ DOMAIN rows = DOMAIN last.pre
          /\ \A j \in DOMAIN rows : j # id => rows[j] = last.pre[j]
          /\ \A k \in DataFields : ~Has(p, k) => rows[id][k] = last.pre[id][k]
          /\ Len(last.out) = 1 /\ last.out[1].id = id

C4_Witness ==
  /\ last.op = "update" /\ last.ok
  /\ Has(last.args.patch, "id") /\ Has(last.args.patch, "amount")
  /\ rows # last.pre
  /\ DOMAIN rows # {last.args.id}

\* C5: update(id, patch) on an id without a row fails with the not-found
\* error for every patch that passes validation, the patch without fields
\* included, and leaves the table as it was.
C5_UpdateMissingIsNotFound ==
  (/\ last.op = "update"
   /\ last.args.id \notin DOMAIN last.pre
   /\ ValidPatch(last.args.patch))
    => /\ ~last.ok
       /\ last.err \in {NotFound(last.args.id),
                        <<UpdatePrefix>> \o NotFound(last.args.id)}
       /\ rows = last.pre

\* C6: every failure of create or update reaches the caller as the prefix of
\* the failing operation followed by the original message.
C6_FailuresAreWrapped ==
  /\ (last.op = "create" /\ ~last.ok)
       => (Len(last.err) >= 2 /\ last.err[1] = CreatePrefix)
  /\ (last.op = "update" /\ ~last.ok)
       => (Len(last.err) >= 2 /\ last.err[1] = UpdatePrefix)

\* C7: delete(id) never fails, removes the row of id and no other row, leaves
\* a table without such a row as it was, and a second delete(id) would leave
\* the table of the first.
C7_DeleteIdempotent ==
  last.op = "delete"
    => /\ last.ok
       /\ DOMAIN rows = DOMAIN last.pre \ {last.args.id}
       /\ \A j \in DOMAIN rows : rows[j] = last.pre[j]
       /\ deleteRows(rows, last.args.id) = rows

C7_Witness ==
  /\ last.op = "delete"
  /\ last.args.id \in DOMAIN last.pre
  /\ rows # <<>>

\* C8: create(t) of a valid t returns a transaction under an id that no row
\* held before the call and no deleted row ever held; getById of that id then
\* returns t's date, amount, type, category and description; the rows stored
\* before are as they were.
C8_CreateThenGetById ==
  (last.op = "create" /\ ValidTx(last.args.tx))
    => /\ last.ok /\ Len(last.out) = 1
       /\ LET id == last.out[1].id
              t == last.args.tx
              r == getByIdResult(rows, id)
          IN /\ id \notin DOMAIN last.pre
             /\ id \notin gone
             /\ r.ok /\ Len(r.out) = 1
             /\ r.out[1].id = id
             /\ \A k \in DataFields : r.out[1][k] = t[k]
             /\ DOMAIN rows = DOMAIN last.pre \cup {id}
             /\ \A j \in DOMAIN last.pre : rows[j] = last.pre[j]

C8_Witness ==
  /\ last.op = "create" /\ ValidTx(last.args.tx) /\ last.ok
  /\ gone # {}
  /\ last.args.tx.date = DateOf(10000)

\* C9: getByDateRange(a, b) returns exactly the stored transactions dated d
\* with a <= d <= b, each once, in non-increasing date order.
C9_DateRangeExact ==
  last.op = "getByDateRange"
    => /\ last.ok
       /\ {last.out[n].id : n \in DOMAIN last.out} =
            {i \in DOMAIN rows :
               /\ last.args.startDate.y <= Year(rows[i])
               /\ Year(rows[i]) <= last.args.endDate.y}
       /\ \A m, n \in DOMAIN last.out :
            /\ m # n => last.out[m].id # last.out[n].id
            /\ m < n => last.out[m].date.y >= last.out[n].date.y

\* C10: no read returns a transaction whose type is not income or expense or
\* whose category is outside the category set of its type: such a stored row
\* makes the read fail.
C10_ReadsRejectIllegalRows ==
  (last.op \in ReadOps /\ last.ok)
    => \A n \in DOMAIN last.out :
         Legal(last.out[n].type, last.out[n].category)
====
